---- MODULE Spec2Model ----
(***************************************************************************)
(* Model of src/optimized_functions.py: make_gif_optimized (the frame      *)
(* folder -> animated GIF pipeline with its imageio and PIL backends) and  *)
(* batch_save_frames / save_frame_optimized (the batch PNG writer).        *)
(*                                                                         *)
(* A file name is a sequence of one-character strings, so that             *)
(* str.endswith and the code-point ordering used by sorted() are computed, *)
(* not assumed.  An image is identified by the name of the file it was     *)
(* read from; a figure by its identity.                                    *)
(***************************************************************************)
EXTENDS Integers, Sequences, FiniteSets, TLC

VARIABLES
    IMAGEIO_AVAILABLE,  \* module flag set once by the import at lines 16-21
    dirExists,          \* os.path.exists(frame_folder)
    entries,            \* os.listdir(frame_folder): the set of entry names
    unreadable,         \* entries whose decoding/opening raises
    artifacts,          \* the .gif files of the folder: entry -> frames, the keyword
                        \* arguments given to the encoder, and who wrote it
    before,             \* artifacts as they were when the current call began
    existed,            \* what os.path.exists(frame_folder) returned at line 56
    written,            \* the paths the current call has written
    pc,                 \* position inside make_gif_optimized
    duration,           \* argument of the current call
    name,               \* argument of the current call
    use_imageio,        \* argument of the current call
    png_files,          \* local of make_gif_optimized
    images,             \* local of the imageio branch
    frames,             \* local of the PIL branch
    idx,                \* position of the for loop at line 72 (1-based)
    errAt,              \* where the exception that left the call was raised
    bpc,                \* position inside batch_save_frames
    figures,            \* argument of batch_save_frames
    filenames,          \* argument of batch_save_frames
    dpi,                \* argument of batch_save_frames
    batch_size,         \* argument of batch_save_frames
    failing,            \* figures whose savefig raises
    i,                  \* outer loop variable (0-based start of the batch)
    j,                  \* position inside the current batch (1-based)
    log,                \* the savefig / plt.close calls made so far, in order
    berr                \* what raised out of batch_save_frames

gifVars == <<IMAGEIO_AVAILABLE, dirExists, entries, unreadable, artifacts, before,
             existed, written, pc, duration, name, use_imageio, png_files, images, frames, idx, errAt>>
batchVars == <<bpc, figures, filenames, dpi, batch_size, failing, i, j, log, berr>>
vars == <<gifVars, batchVars>>

----------------------------------------------------------------------------
(* Bounds of the model *)

\* largest number of entries the frame folder holds
MaxFiles == 4
\* largest number of figures / filenames handed to batch_save_frames
MaxFigs == 3
\* largest batch_size tried
MaxBatch == 2

----------------------------------------------------------------------------
(* Strings *)

\* ord() of the characters that occur in the modelled names
Code(c) ==
    CASE c = "." -> 46
      [] c = "B" -> 66
      [] c = "G" -> 71
      [] c = "N" -> 78
      [] c = "P" -> 80
      [] c = "a" -> 97
      [] c = "b" -> 98
      [] c = "d" -> 100
      [] c = "e" -> 101
      [] c = "f" -> 102
      [] c = "g" -> 103
      [] c = "i" -> 105
      [] c = "m" -> 109
      [] c = "n" -> 110
      [] c = "o" -> 111
      [] c = "p" -> 112
      [] c = "t" -> 116

\* s.endswith(suffix)
EndsWith(s, suffix) ==
    /\ Len(s) >= Len(suffix)
    /\ SubSeq(s, Len(s) - Len(suffix) + 1, Len(s)) = suffix

\* Python's str "<": first differing code point decides, a proper prefix is smaller
StrLess(a, b) ==
    \E k \in 1..Len(b) :
        /\ k <= Len(a) + 1
        /\ \A m \in 1..(k - 1) : a[m] = b[m]
        /\ IF k = Len(a) + 1 THEN TRUE ELSE Code(a[k]) < Code(b[k])

PngExt == <<".", "p", "n", "g">>
GifExt == <<".", "g", "i", "f">>

\* the names a frame folder may hold
FileNames ==
    { <<"a">> \o PngExt,                 \* a.png
      <<"a", "b">> \o PngExt,            \* ab.png  (a.png < ab.png: "." < "b")
      <<"B">> \o PngExt,                 \* B.png   (upper case sorts first)
      PngExt,                            \* .png    (ends with ".png")
      <<"a", ".", "P", "N", "G">>,       \* a.PNG   (endswith is case sensitive)
      <<"a", "p", "n", "g">> }           \* apng    (no dot)

\* values of the name argument; "animation" is the default (line 46)
Names == { <<"a", "n", "i", "m", "a", "t", "i", "o", "n">>, <<"d", "e", "m", "o">> }

\* values of the duration argument
Durations == {1, 5}

----------------------------------------------------------------------------
(* make_gif_optimized *)

\* [f for f in os.listdir(frame_folder) if f.endswith('.png')]
PngFilter(es) == { f \in es : EndsWith(f, PngExt) }

\* sorted(...) of a collection of distinct strings: smallest first
RECURSIVE Sorted(_)
Sorted(S) ==
    IF S = {} THEN <<>>
    ELSE LET m == CHOOSE x \in S : \A y \in S : y = x \/ StrLess(x, y)
         IN  <<m>> \o Sorted(S \ {m})

\* slip: the slice starts at the second element (png_files[1::2])
StrideFromOne(s) == [k \in 1..(Len(s) \div 2) |-> s[2 * k]]

\* png_files[::2]
Stride(s) == [k \in 1..((Len(s) + 1) \div 2) |-> s[2 * k - 1]]

\* slip: the early return for an empty list is missing
NoFramesNever(pf) == FALSE

\* `if not png_files:`
NoFrames(pf) == pf = <<>>

\* os.path.join(frame_folder, f"{name}.gif"), as an entry of frame_folder
GifName(n) == n \o GifExt

\* `use_imageio and IMAGEIO_AVAILABLE`
FastPath(u) == u /\ IMAGEIO_AVAILABLE

\* the file at path p is created or replaced by an animation
WriteGif(p, anim) ==
    /\ entries' = entries \cup {p}
    /\ artifacts' = (p :> anim) @@ artifacts
    /\ written' = written \cup {p}

\* lines 56-69: create the folder, list, filter, sort, stride, return when empty,
\* else enter the branch of the selected backend
MakeGifCall(d, n, u) ==
    /\ pc \in {"idle", "returned", "raised"}
    /\ duration' = d
    /\ name' = n
    /\ use_imageio' = u
    /\ existed' = dirExists
    /\ dirExists' = TRUE
    /\ before' = artifacts
    /\ written' = {}
    /\ png_files' = Stride(Sorted(PngFilter(entries)))
    /\ images' = <<>>
    /\ frames' = <<>>
    /\ idx' = 1
    /\ errAt' = "none"
    /\ pc' = IF NoFrames(png_files') THEN "returned"
             ELSE IF FastPath(u) THEN "imread" ELSE "open"
    /\ UNCHANGED <<IMAGEIO_AVAILABLE, entries, unreadable, artifacts>>

\* slip: imread outside any try/except, so that a failing read leaves the call
ImreadNoCatch ==
    /\ pc = "imread"
    /\ idx <= Len(png_files)
    /\ IF png_files[idx] \in unreadable
       THEN /\ pc' = "raised"
            /\ errAt' = "imread"
            /\ UNCHANGED <<images, idx>>
       ELSE /\ images' = Append(images, png_files[idx])
            /\ idx' = idx + 1
            /\ UNCHANGED <<pc, errAt>>
    /\ UNCHANGED <<IMAGEIO_AVAILABLE, dirExists, entries, unreadable, artifacts,
                   before, existed, written, duration, name, use_imageio,
                   png_files, frames>>

\* lines 72-77: one iteration of the read loop; a failing imread is caught and
\* only printed
Imread ==
    /\ pc = "imread"
    /\ idx <= Len(png_files)
    /\ images' = IF png_files[idx] \in unreadable
                 THEN images
                 ELSE Append(images, png_files[idx])
    /\ idx' = idx + 1
    /\ UNCHANGED <<IMAGEIO_AVAILABLE, dirExists, entries, unreadable, artifacts,
                   before, existed, written, pc, duration, name, use_imageio,
                   png_files, frames, errAt>>

\* lines 79-83: imageio.mimsave(gif_path, images, duration=duration).  With an
\* empty list the library either raises or returns, and either leaves a file
\* without frames or none, depending on its version.
Mimsave ==
    /\ pc = "imread"
    /\ idx > Len(png_files)
    /\ LET anim == [frames |-> images, kwargs |-> [duration |-> duration],
                    backend |-> "imageio", name |-> name]
       IN  IF images # <<>>
           THEN /\ WriteGif(GifName(name), anim)
                /\ pc' = "returned"
                /\ errAt' = errAt
           ELSE \E created, raises \in BOOLEAN :
                /\ IF created THEN WriteGif(GifName(name), anim)
                   ELSE UNCHANGED <<entries, artifacts, written>>
                /\ pc' = IF raises THEN "raised" ELSE "returned"
                /\ errAt' = IF raises THEN "mimsave" ELSE errAt
    /\ UNCHANGED <<IMAGEIO_AVAILABLE, dirExists, unreadable, before, existed,
                   duration, name, use_imageio, png_files, images, frames, idx>>

\* slip: files that cannot be opened are left out instead of raising
OpenFramesSkipBad ==
    /\ pc = "open"
    /\ pc' = "save"
    /\ frames' = SelectSeq(png_files, LAMBDA f : f \notin unreadable)
    /\ UNCHANGED <<IMAGEIO_AVAILABLE, dirExists, entries, unreadable, artifacts,
                   before, existed, written, duration, name, use_imageio,
                   png_files, images, idx, errAt>>

\* line 87: [Image.open(...) for image in png_files]; the first file that cannot
\* be opened raises out of the function
OpenFrames ==
    /\ pc = "open"
    /\ IF \E k \in 1..Len(png_files) : png_files[k] \in unreadable
       THEN /\ pc' = "raised"
            /\ errAt' = "Image.open"
            /\ frames' = frames
       ELSE /\ pc' = "save"
            /\ errAt' = errAt
            /\ frames' = png_files
    /\ UNCHANGED <<IMAGEIO_AVAILABLE, dirExists, entries, unreadable, artifacts,
                   before, existed, written, duration, name, use_imageio,
                   png_files, images, idx>>

\* slip: append_images=frames, which repeats the first frame
AppendImagesAll(fs) == fs

\* append_images=frames[1:]
AppendImages(fs) == Tail(fs)

\* slip: save_all left out, so that only the first frame is saved
SavedFramesFirstOnly(fs) == <<fs[1]>>

\* frame_one.save(..., append_images=..., save_all=True): the frames of the file
SavedFrames(fs) == <<fs[1]>> \o AppendImages(fs)

\* lines 90-104: `if frames:` save the first frame with the others appended
Save ==
    /\ pc = "save"
    /\ IF frames # <<>>
       THEN WriteGif(GifName(name),
                     [frames |-> SavedFrames(frames),
                      kwargs |-> [duration |-> duration, loop |-> 0],
                      backend |-> "PIL", name |-> name])
       ELSE UNCHANGED <<entries, artifacts, written>>
    /\ pc' = "returned"
    /\ UNCHANGED <<IMAGEIO_AVAILABLE, dirExists, unreadable, before, existed,
                   duration, name, use_imageio, png_files, images, frames, idx, errAt>>

\* a frame folder as the program may find it: absent, or holding at most MaxFiles
\* entries, some of the PNG entries unreadable; it holds no .gif yet
InitGif ==
    /\ IMAGEIO_AVAILABLE \in BOOLEAN
    /\ dirExists \in BOOLEAN
    /\ entries \in { S \in SUBSET FileNames : Cardinality(S) <= MaxFiles }
    /\ (~dirExists => entries = {})
    /\ unreadable \in SUBSET PngFilter(entries)
    /\ artifacts = <<>>
    /\ before = <<>>
    /\ existed = dirExists
    /\ written = {}
    /\ pc = "idle"
    /\ duration = 1
    /\ name = <<>>
    /\ use_imageio = TRUE
    /\ png_files = <<>>
    /\ images = <<>>
    /\ frames = <<>>
    /\ idx = 1
    /\ errAt = "none"

----------------------------------------------------------------------------
(* batch_save_frames and save_frame_optimized *)

\* destination paths handed to batch_save_frames (repetitions allowed)
OutNames == {"f0.png", "f1.png"}

\* values of the dpi argument; 150 is the default (lines 23, 106)
Dpis == {100, 150}

\* values of the batch_size argument: negative, zero and positive
BatchSizes == (0 - 1)..MaxBatch

Min(a, b) == IF a <= b THEN a ELSE b

\* s[lo:hi] for 0 <= lo
Slice(s, lo, hi) == SubSeq(s, lo + 1, Min(hi, Len(s)))

\* zip(a, b): stops at the shorter one
Zip(a, b) == [k \in 1..Min(Len(a), Len(b)) |-> <<a[k], b[k]>>]

\* slip: the length check is missing
LengthsMatchAlways(figs, fnames) == TRUE

\* `len(figures) != len(filenames)` is false
LengthsMatch(figs, fnames) == Len(figs) = Len(fnames)

\* total = len(figures)
total == Len(figures)

\* batch_end = min(i + batch_size, total)
batch_end == Min(i + batch_size, total)

\* zip(batch_figures, batch_filenames) of the batch that starts at i
BatchItems == Zip(Slice(figures, i, batch_end), Slice(filenames, i, batch_end))

\* i is still inside range(0, total, batch_size)
InRange == IF batch_size > 0 THEN i < total ELSE i > total

\* the fig.savefig call of save_frame_optimized (lines 33-42)
SavefigCall(fig, filename, d, ok) ==
    [op |-> "savefig", fig |-> fig, filename |-> filename, dpi |-> d,
     format |-> "png", ok |-> ok]

\* plt.close(fig)
CloseCall(fig) == [op |-> "close", fig |-> fig]

\* lines 116-120: validate the lengths, then evaluate range(0, total, batch_size),
\* which raises ValueError for a zero step
BatchCall(figs, fnames, d, bs, bad) ==
    /\ bpc = "idle"
    /\ figures' = figs
    /\ filenames' = fnames
    /\ dpi' = d
    /\ batch_size' = bs
    /\ failing' = bad
    /\ i' = 0
    /\ j' = 1
    /\ log' = <<>>
    /\ IF ~LengthsMatch(figs, fnames)
       THEN bpc' = "raised" /\ berr' = "length mismatch"
       ELSE IF bs = 0
            THEN bpc' = "raised" /\ berr' = "range step"
            ELSE bpc' = "outer" /\ berr' = "none"

\* line 120-125: the head of the outer loop: take the next batch or return
NextBatch ==
    /\ bpc = "outer"
    /\ IF InRange
       THEN bpc' = "inner" /\ j' = 1
       ELSE bpc' = "returned" /\ j' = j
    /\ UNCHANGED <<figures, filenames, dpi, batch_size, failing, i, log, berr>>

\* slip: a failing savefig is swallowed and the loop goes on
SaveFrameSwallow ==
    /\ bpc = "inner"
    /\ j <= Len(BatchItems)
    /\ LET fig == BatchItems[j][1]
           fname == BatchItems[j][2]
       IN  log' = Append(log, SavefigCall(fig, fname, dpi, fig \notin failing))
    /\ bpc' = "close"
    /\ UNCHANGED <<figures, filenames, dpi, batch_size, failing, i, j, berr>>

\* line 128: save_frame_optimized(fig, fname, dpi); a failing savefig propagates
SaveFrame ==
    /\ bpc = "inner"
    /\ j <= Len(BatchItems)
    /\ LET fig == BatchItems[j][1]
           fname == BatchItems[j][2]
       IN  IF fig \in failing
           THEN /\ log' = Append(log, SavefigCall(fig, fname, dpi, FALSE))
                /\ bpc' = "raised"
                /\ berr' = "savefig"
           ELSE /\ log' = Append(log, SavefigCall(fig, fname, dpi, TRUE))
                /\ bpc' = "close"
                /\ berr' = berr
    /\ UNCHANGED <<figures, filenames, dpi, batch_size, failing, i, j>>

\* slip: the figure is not closed after its save
CloseFigureSkip ==
    /\ bpc = "close"
    /\ j' = j + 1
    /\ bpc' = "inner"
    /\ UNCHANGED <<figures, filenames, dpi, batch_size, failing, i, log, berr>>

\* line 129: plt.close(fig)
CloseFigure ==
    /\ bpc = "close"
    /\ log' = Append(log, CloseCall(BatchItems[j][1]))
    /\ j' = j + 1
    /\ bpc' = "inner"
    /\ UNCHANGED <<figures, filenames, dpi, batch_size, failing, i, berr>>

\* the inner loop is exhausted: the outer loop steps i by batch_size
EndBatch ==
    /\ bpc = "inner"
    /\ j > Len(BatchItems)
    /\ i' = i + batch_size
    /\ bpc' = "outer"
    /\ UNCHANGED <<figures, filenames, dpi, batch_size, failing, j, log, berr>>

----------------------------------------------------------------------------
(* Specifications *)

BatchIdle ==
    /\ bpc = "idle"
    /\ figures = <<>>
    /\ filenames = <<>>
    /\ dpi = 150
    /\ batch_size = 5
    /\ failing = {}
    /\ i = 0
    /\ j = 1
    /\ log = <<>>
    /\ berr = "none"

\* make_gif_optimized called any number of times on one frame folder
Init == InitGif /\ BatchIdle

Next ==
    \/ \E d \in Durations, n \in Names, u \in BOOLEAN :
          MakeGifCall(d, n, u) /\ UNCHANGED batchVars
    \/ Imread /\ UNCHANGED batchVars
    \/ Mimsave /\ UNCHANGED batchVars
    \/ OpenFrames /\ UNCHANGED batchVars
    \/ Save /\ UNCHANGED batchVars

Spec == Init /\ [][Next]_vars

GifIdle ==
    /\ IMAGEIO_AVAILABLE = TRUE
    /\ dirExists = FALSE
    /\ entries = {}
    /\ unreadable = {}
    /\ artifacts = <<>>
    /\ before = <<>>
    /\ existed = dirExists
    /\ written = {}
    /\ pc = "idle"
    /\ duration = 1
    /\ name = <<>>
    /\ use_imageio = TRUE
    /\ png_files = <<>>
    /\ images = <<>>
    /\ frames = <<>>
    /\ idx = 1
    /\ errAt = "none"

\* the figures 1..n in the order they were created
Figures(n) == [k \in 1..n |-> k]

\* sequences over S of length at most n
RECURSIVE SeqsUpTo(_, _)
SeqsUpTo(S, n) ==
    IF n = 0 THEN {<<>>}
    ELSE LET shorter == SeqsUpTo(S, n - 1)
         IN  shorter \cup { Append(s, x) : s \in shorter, x \in S }

\* one call of batch_save_frames
InitBatch == GifIdle /\ BatchIdle

NextBatchCall ==
    \/ \E n \in 0..MaxFigs, fnames \in SeqsUpTo(OutNames, MaxFigs),
          d \in Dpis, bs \in BatchSizes :
          \E bad \in SUBSET (1..n) :
             BatchCall(Figures(n), fnames, d, bs, bad) /\ UNCHANGED gifVars
    \/ NextBatch /\ UNCHANGED gifVars
    \/ SaveFrame /\ UNCHANGED gifVars
    \/ CloseFigure /\ UNCHANGED gifVars
    \/ EndBatch /\ UNCHANGED gifVars

SpecBatch == InitBatch /\ [][NextBatchCall]_vars

----------------------------------------------------------------------------
(* Properties of make_gif_optimized, stated on the folder's contents and not on
   the operators the actions use *)

\* the last four characters are ".png"
IsPngName(f) ==
    /\ Len(f) >= 4
    /\ f[Len(f) - 3] = "."
    /\ f[Len(f) - 2] = "p"
    /\ f[Len(f) - 1] = "n"
    /\ f[Len(f)] = "g"

PngSet == { f \in entries : IsPngName(f) }

\* N of the claims
N == Cardinality(PngSet)

\* zero-based position of f in the ascending order of the PNG names
Rank(f) == Cardinality({ g \in PngSet : StrLess(g, f) })

\* the PNG entries at positions 0, 2, 4, ...
RetainedSet == { f \in PngSet : Rank(f) % 2 = 0 }

ReadableRetained == RetainedSet \ unreadable

\* q is ceil(n / 2)
IsCeilHalf(q, n) == 2 * q \in {n, n + 1}

\* s lists exactly the members of S, ascending
ListsAscending(s, S) ==
    /\ Len(s) = Cardinality(S)
    /\ \A k \in 1..Len(s) :
          /\ s[k] \in S
          /\ Cardinality({ g \in S : StrLess(g, s[k]) }) = k - 1

Called == pc # "idle"

\* C1: once a call has listed the folder, png_files holds exactly ceil(N/2)
\* names: the PNG entries at positions 0, 2, 4, ... of the ascending order, in
\* that order; no entry that does not end in ".png" is among them.
C1_RetainedFrames ==
    Called =>
        /\ IsCeilHalf(Len(png_files), N)
        /\ \A k \in 1..Len(png_files) :
              /\ png_files[k] \in entries
              /\ IsPngName(png_files[k])
              /\ Rank(png_files[k]) = 2 * (k - 1)

C1_Witness ==
    /\ Called
    /\ N = 3
    /\ Len(png_files) = 2
    /\ \E f \in entries : ~IsPngName(f) /\ f \in FileNames

\* C2: a call on a folder without PNG entries (missing or not) returns at once
\* without raising, whichever backend is selected; it writes nothing, the folder
\* holds no animation afterwards, and a folder that was missing now exists, empty.
C2_NoFramesNoWrite ==
    (Called /\ N = 0) =>
        /\ pc = "returned"
        /\ errAt = "none"
        /\ written = {}
        /\ artifacts = before
        /\ DOMAIN artifacts = {}
        /\ entries \subseteq FileNames
        /\ dirExists
        /\ (~existed => entries = {})

C2_Witness ==
    /\ pc = "returned"
    /\ N = 0
    /\ ~existed
    /\ dirExists
    /\ ~FastPath(use_imageio)

\* C3 as claimed: whenever a call writes an animation, it has ceil(N/2) frames,
\* readable frames or not.
C3_Original ==
    \A p \in written : IsCeilHalf(Len(artifacts[p].frames), N)

\* C3 as amended: whenever a call writes an animation, its frames are as many as
\* the readable ones among the ceil(N/2) retained frames; that is ceil(N/2) when
\* every retained frame is readable.
C3_FrameCount ==
    \A p \in written :
        /\ Len(artifacts[p].frames) = Cardinality(ReadableRetained)
        /\ IsCeilHalf(Cardinality(RetainedSet), N)
        /\ (RetainedSet \cap unreadable = {}
               => IsCeilHalf(Len(artifacts[p].frames), N))

C3_Witness ==
    /\ pc = "returned"
    /\ N = 3
    /\ \E p \in written :
          /\ Len(artifacts[p].frames) = 1
          /\ artifacts[p].backend = "imageio"

\* C4: every animation a call writes was requested from its encoder with
\* loop = 0 (infinite) and with the caller's duration.
C4_LoopAndDuration ==
    \A p \in written :
        /\ "loop" \in DOMAIN artifacts[p].kwargs
        /\ artifacts[p].kwargs.loop = 0
        /\ artifacts[p].kwargs.duration = duration

\* C5: when a call of one backend writes an animation and the folder holds one
\* written by the other backend for the same name and duration, all retained
\* frames being readable, then the two are the same file of the folder, with the
\* same frames in the same order and the same duration; the fallback's file
\* holds its first frame once.
C5_BackendsAgree ==
    \A q \in written :
        /\ \A p \in DOMAIN before :
              ( /\ before[p].backend # artifacts[q].backend
                /\ before[p].name = artifacts[q].name
                /\ before[p].kwargs.duration = duration
                /\ RetainedSet \cap unreadable = {} )
              => /\ p = q
                 /\ before[p].frames = artifacts[q].frames
                 /\ before[p].kwargs.duration = artifacts[q].kwargs.duration
        /\ artifacts[q].backend = "PIL" =>
              Cardinality({ k \in 1..Len(artifacts[q].frames) :
                              artifacts[q].frames[k] = artifacts[q].frames[1] }) = 1

C5_Witness ==
    /\ pc = "returned"
    /\ RetainedSet \cap unreadable = {}
    /\ \E q \in written :
          /\ q \in DOMAIN before
          /\ artifacts[q].backend = "PIL"
          /\ before[q].backend = "imageio"
          /\ before[q].kwargs.duration = duration
          /\ Len(artifacts[q].frames) = 2

\* C8: on the imageio path no read aborts the call: the images collected so far
\* are the readable retained frames among those visited, ascending; the list
\* given to mimsave, and written by it, is exactly the readable retained frames
\* in ascending order; only mimsave itself can raise.
C8_FastPathSkipsUnreadable ==
    (Called /\ FastPath(use_imageio) /\ N > 0) =>
        /\ ListsAscending(images, { f \in ReadableRetained : Rank(f) < 2 * (idx - 1) })
        /\ (pc \in {"returned", "raised"} => ListsAscending(images, ReadableRetained))
        /\ (pc = "raised" => errAt = "mimsave" /\ images = <<>>)
        /\ (pc = "returned" /\ images # <<>> => written = {GifName(name)})
        /\ \A p \in written : artifacts[p].frames = images

C8_Witness ==
    /\ pc = "returned"
    /\ FastPath(use_imageio)
    /\ N = 3
    /\ \E f \in unreadable : Rank(f) = 0
    /\ \E f \in unreadable : Rank(f) = 1
    /\ \E p \in written : Len(artifacts[p].frames) = 1

\* C9: on the PIL path a retained frame that cannot be opened makes the call
\* raise from Image.open; the call writes nothing and every animation of the
\* folder stays as it was.
C9_FallbackAborts ==
    (Called /\ ~FastPath(use_imageio) /\ RetainedSet \cap unreadable # {}) =>
        /\ written = {}
        /\ artifacts = before
        /\ pc \in {"open", "raised"}
        /\ (pc = "raised" => errAt = "Image.open")

C9_Witness ==
    /\ pc = "raised"
    /\ errAt = "Image.open"
    /\ ~FastPath(use_imageio)
    /\ GifName(name) \in DOMAIN before

----------------------------------------------------------------------------
(* Properties of batch_save_frames *)

\* the call that a complete run makes at position m of the log: the save of
\* pair (m + 1) / 2 at odd m, the close of the figure of pair m / 2 at even m
ExpectedCall(m) ==
    IF m % 2 = 1
    THEN [op |-> "savefig", fig |-> figures[(m + 1) \div 2],
          filename |-> filenames[(m + 1) \div 2], dpi |-> dpi,
          format |-> "png", ok |-> TRUE]
    ELSE [op |-> "close", fig |-> figures[m \div 2]]

\* the first m calls are those of a complete run
RunsAsExpected(m) == \A k \in 1..m : log[k] = ExpectedCall(k)

\* C6: with lists of equal length L and batch_size >= 1, the calls made are at
\* every moment save(1), close(1), save(2), close(2), ... in input order at the
\* caller's dpi, each close directly after its own save and before the next
\* save; when the call returns it has made exactly L saves and closed each
\* figure exactly once.
C6_WriteThenClose ==
    (bpc # "idle" /\ Len(figures) = Len(filenames) /\ batch_size >= 1) =>
        /\ RunsAsExpected(IF bpc = "raised" THEN Len(log) - 1 ELSE Len(log))
        /\ (bpc = "close" => Len(log) % 2 = 1)
        /\ (bpc \in {"inner", "outer", "returned"} => Len(log) % 2 = 0)
        /\ (bpc = "returned" =>
              /\ Len(log) = 2 * Len(figures)
              /\ \A f \in 1..Len(figures) :
                    Cardinality({ k \in 1..Len(log) :
                                    log[k].op = "close" /\ log[k].fig = figures[f] }) = 1)

C6_Witness ==
    /\ bpc = "returned"
    /\ Len(figures) = 3
    /\ batch_size = 2
    /\ Len(log) = 6
    /\ filenames[1] = filenames[3]

\* C7: with lists of different lengths the call raises the validation error and
\* has made no savefig and no close call.
C7_MismatchRaisesFirst ==
    (bpc # "idle" /\ Len(figures) # Len(filenames)) =>
        /\ bpc = "raised"
        /\ berr = "length mismatch"
        /\ log = <<>>

C7_Witness ==
    /\ bpc = "raised"
    /\ berr = "length mismatch"
    /\ Len(figures) = 2
    /\ Len(filenames) = 3
    /\ batch_size = 0

\* C10: when a savefig fails, the call raises at once: the failing figure is the
\* first failing one of the list, say at position k; the pairs before k have
\* each been saved and closed, in order; the failed save was tried once and is
\* the last call made; no later figure was saved or closed.  A call that
\* returns met no failing figure.
C10_FailureHalts ==
    /\ (bpc = "raised" /\ berr = "savefig") =>
          \E k \in 1..Len(figures) :
             /\ figures[k] \in failing
             /\ \A m \in 1..(k - 1) : figures[m] \notin failing
             /\ Len(log) = 2 * (k - 1) + 1
             /\ RunsAsExpected(2 * (k - 1))
             /\ log[Len(log)] = [op |-> "savefig", fig |-> figures[k],
                                 filename |-> filenames[k], dpi |-> dpi,
                                 format |-> "png", ok |-> FALSE]
    /\ (bpc = "returned" /\ batch_size >= 1) =>
          \A k \in 1..Len(figures) : figures[k] \notin failing
    /\ \A k \in 1..Len(log) : log[k].op = "savefig" /\ ~log[k].ok => k = Len(log)

C10_Witness ==
    /\ bpc = "raised"
    /\ berr = "savefig"
    /\ Len(figures) = 3
    /\ batch_size = 1
    /\ failing = {2, 3}
    /\ Len(log) = 3

====
